---- MODULE Spec2Model ----
(***************************************************************************)
(* Directory migration of bee-repair (internal/repair/repair.go):          *)
(* DirectoryRepair and getOldDirectoryEntry run on the calling task, the   *)
(* goroutine launched by getOldDirectoryEntry walks the legacy mantaray    *)
(* tree.  The two tasks meet on two unbuffered channels (entryChan,        *)
(* errChan) and, unsynchronised, on the variable err of                    *)
(* getOldDirectoryEntry, which the goroutine's closure captures.           *)
(*                                                                         *)
(* The mantaray walker, the manifest and the content store are external    *)
(* libraries: the walk is the sequence of visits the walker reports, each  *)
(* library call that returns an error may fail.                            *)
(***************************************************************************)
EXTENDS Integers, Sequences, FiniteSets, TLC

\* ---------------------------------------------------------------- bounds
\* Largest number of nodes the walker reports for one legacy tree.
MaxNodes == 3

\* ------------------------------------------------------------- constants
\* swarm.ZeroAddress, and the reference Store returns for the new manifest.
ZeroAddress == "zero"
NewReference == "newRef"
\* manifest.RootPath ("/"); the paths of the walked nodes are 1..MaxNodes.
RootPath == 0

\* error values; Nil is Go's nil error
Nil == "nil"
LoadErr == "loadErr"
LookupErr == "lookupErr"
ManifestErr == "manifestErr"
AddRootErr == "addRootErr"
AddErr == "addErr"
StoreErr == "storeErr"
WalkErr == "walkErr"
CtxErr == "ctxErr"

\* The legacy file entries a leaf can refer to: what getOldFileEntry decodes
\* (entry.Entry: reference; entry.Metadata: Filename, MimeType).
OldFileEntries ==
    { [reference |-> "refA", Filename |-> "a.txt", MimeType |-> "text/plain"],
      [reference |-> "refB", Filename |-> "b.jpeg", MimeType |-> "image/jpeg"] }

\* A node as the walker reports it: a directory, or a leaf with its entry.
DirNode == [isDir |-> TRUE, reference |-> "", Filename |-> "", MimeType |-> ""]
LeafNode(e) == [isDir |-> FALSE, reference |-> e.reference,
                Filename |-> e.Filename, MimeType |-> e.MimeType]
Nodes == {DirNode} \cup {LeafNode(e) : e \in OldFileEntries}

\* rootNode.Metadata(): the site settings of the legacy root node.
RootMetadatas ==
    { [index |-> "", error |-> ""],
      [index |-> "b.jpeg", error |-> "a.txt"] }

\* Metadata map of a manifest entry; absent keys are "".
EmptyMetadata == [index |-> "", error |-> "", Filename |-> "", ContentType |-> ""]

VARIABLES
    tree,        \* the legacy tree, as the sequence of nodes the walk visits
    rootMeta,    \* metadata of the legacy root node
    cancelled,   \* ctx.Done() is closed
    err,         \* variable err of getOldDirectoryEntry (captured by the goroutine)
    mainPc,      \* position of the calling task
    mValid,      \* NewDefaultManifest returned a manifest
    m,           \* the new manifest: path -> entry
    f,           \* the fileEntry received last by the select loop
    result,      \* what DirectoryRepair returned
    updates,     \* messages given to r.updater.Update
    addLog,      \* calls of Add on the new manifest, in order
    storeCalls,  \* calls of Store on the new manifest
    received,    \* fileEntries received from filesC, in order
    walkPc,      \* position of the walk goroutine
    idx,         \* index in tree of the node the walk visits next
    pending,     \* fentry the goroutine is sending on entryChan
    walkResult,  \* the value node.Walk returned
    sendVal,     \* the value of err evaluated for errChan <- err
    errCloses,   \* number of close(errChan) executed
    entryCloses, \* number of close(entryChan) executed
    cmd,         \* how the call was made: from the command, with which values
    r,           \* the Repairer built by newWithOptions
    oldFile,     \* the stored bytes of the legacy file FileRepair is given
    mEncrypt,    \* the encrypted argument the new manifest was created with
    puts,        \* modes of the chunk writes made through r.ls
    records,     \* Export: the items of the retrieval index, in key order
    expPc,       \* Export: position of the call
    total,       \* Export: the result of retrievalIndex.Count()
    doneCount,   \* Export: variable doneCount of export
    pos,         \* Export: number of the item Iterate hands over next
    archive,     \* Export: the entries written to the tar writer, in order
    progress,    \* Export: the calls of e.updater.Update, in order
    dbState,     \* Export: the shed database: unopened, open or closed
    twState,     \* Export: the tar writer: none, open or closed
    expResult,   \* Export: the error Export returned
    pairTree,    \* two calls: the leaves of the legacy directory of each call
    pairPc,      \* two calls: position of each calling task
    pairWalkPc,  \* two calls: position of each walk goroutine
    pairIdx,     \* two calls: the leaf each walk visits next
    pairPending, \* two calls: the value each goroutine is sending
    pairObjs,    \* two calls: number of channels and manifests created so far
    pairEntryChan, \* two calls: the channel entryChan of each call
    pairErrChan, \* two calls: the channel errChan of each call
    pairM,       \* two calls: the manifest m of each call
    pairClosed,  \* two calls: the channels that are closed
    pairContent, \* two calls: the entries added to each manifest
    pairGot,     \* two calls: the walk errors each calling task received
    prPc,        \* export-db: position of the progress printer goroutine
    prCurr,      \* export-db: the printer's local curr
    prTotal,     \* export-db: the printer's local total
    prComplete,  \* export-db: the printer's local complete
    printed,     \* export-db: the percentages printed, in order
    ctxDone      \* export-db: the command context is cancelled

vars == <<tree, rootMeta, cancelled, err, mainPc, mValid, m, f, result, updates,
          addLog, storeCalls, received, walkPc, idx, pending, walkResult,
          sendVal, errCloses, entryCloses, cmd, r, oldFile, mEncrypt, puts,
          records, expPc, total, doneCount, pos, archive, progress, dbState,
          twState, expResult, pairTree, pairPc, pairWalkPc, pairIdx,
          pairPending, pairObjs, pairEntryChan, pairErrChan, pairM, pairClosed,
          pairContent, pairGot, prPc, prCurr, prTotal, prComplete, printed,
          ctxDone>>

mainVars == <<mainPc, mValid, m, f, result, updates, addLog, storeCalls, received,
              mEncrypt, puts>>
walkVars == <<walkPc, idx, pending, walkResult, sendVal, errCloses, entryCloses>>
inputVars == <<tree, rootMeta, cmd, r, oldFile>>
exportVars == <<records, expPc, total, doneCount, pos, archive, progress,
                dbState, twState, expResult>>

pairVars == <<pairTree, pairPc, pairWalkPc, pairIdx, pairPending, pairObjs,
              pairEntryChan, pairErrChan, pairM, pairClosed, pairContent, pairGot>>

\* No pair of concurrent directory migrations is running.
PairIdle ==
    /\ pairTree = <<>>
    /\ pairPc = <<>>
    /\ pairWalkPc = <<>>
    /\ pairIdx = <<>>
    /\ pairPending = <<>>
    /\ pairObjs = 0
    /\ pairEntryChan = <<>>
    /\ pairErrChan = <<>>
    /\ pairM = <<>>
    /\ pairClosed = {}
    /\ pairContent = <<>>
    /\ pairGot = <<>>

printerVars == <<prPc, prCurr, prTotal, prComplete, printed, ctxDone>>

\* No progress printer is running.
PrinterIdle ==
    /\ prPc = "idle"
    /\ prCurr = 0
    /\ prTotal = 0
    /\ prComplete = FALSE
    /\ printed = <<>>
    /\ ctxDone = FALSE

\* State of the operations a repair call takes no part in.
sideVars == <<exportVars, pairVars, printerVars>>

\* No Export is running.
ExportIdle ==
    /\ records = <<>>
    /\ expPc = "idle"
    /\ total = 0
    /\ doneCount = 0
    /\ pos = 1
    /\ archive = <<>>
    /\ progress = <<>>
    /\ dbState = "unopened"
    /\ twState = "none"
    /\ expResult = ""

NoEntry == [filepath |-> RootPath, reference |-> "", Filename |-> "", MimeType |-> ""]
NoResult == [ref |-> "", err |-> ""]

\* fentry of the leaf at position i: getOldFileEntry's result with filepath set.
FileEntry(i) ==
    [filepath |-> i, reference |-> tree[i].reference,
     Filename |-> tree[i].Filename, MimeType |-> tree[i].MimeType]

\* manifest.NewEntry(reference, metadata)
NewEntry(reference, metadata) == [reference |-> reference, metadata |-> metadata]

\* RootEntry as it would be with the legacy root metadata left out.
RootEntry_NoMetadata == NewEntry(ZeroAddress, EmptyMetadata)

\* The root entry getOldDirectoryEntry adds.
RootEntry ==
    NewEntry(ZeroAddress, [EmptyMetadata EXCEPT !.index = rootMeta.index,
                                                !.error = rootMeta.error])

\* The entry DirectoryRepair adds for a received fileEntry.
LeafEntry(fe) ==
    NewEntry(fe.reference, [EmptyMetadata EXCEPT !.Filename = fe.Filename,
                                                 !.ContentType = fe.MimeType])

\* manifest Add: the path now maps to the entry.
ManifestAdd(mf, path, entry) ==
    [p \in DOMAIN mf \cup {path} |-> IF p = path THEN entry ELSE mf[p]]

EmptyManifest == [p \in {} |-> NewEntry(ZeroAddress, EmptyMetadata)]

\* storage.ModePutUpload and storage.ModePutUploadPin
ModePutUpload == "ModePutUpload"
ModePutUploadPin == "ModePutUploadPin"

\* A call: made by the himalaya file / directory command with the flag
\* variables pin and encrypted, or made directly with WithPin(pin) and
\* WithEncryption(encrypted).
Invocations ==
    [viaCmd : BOOLEAN, pin : BOOLEAN, encrypted : BOOLEAN]

\* The options the command's RunE passes: WithAPIStore, WithLogger,
\* WithEncryption(encrypted), WithProgressUpdater; pin keeps its zero value.
CmdOptions(flags) == [encrypt |-> flags.encrypted, pin |-> FALSE]

\* The options of a call.
OptionsOf(c) ==
    IF c.viaCmd THEN CmdOptions(c)
                ELSE [encrypt |-> c.encrypted, pin |-> c.pin]

\* newWithOptions as it would be if the pin option were not looked at.
newWithOptions_NoPin(opts) ==
    [pin |-> opts.pin, encrypt |-> opts.encrypt,
     ls |-> [mode |-> ModePutUpload, encrypt |-> opts.encrypt]]

\* newWithOptions: the write mode follows r.pin, the load-saver takes the
\* mode and r.encrypt.
newWithOptions(opts) ==
    [pin |-> opts.pin,
     encrypt |-> opts.encrypt,
     ls |-> [mode |-> IF opts.pin THEN ModePutUploadPin ELSE ModePutUpload,
             encrypt |-> opts.encrypt]]

\* The chunk writes of a manifest Store go through the load-saver's mode.
Save(ls, written) == written \cup {ls.mode}

\* No legacy file: the call is a directory migration.
NoOldFile == [entryLen |-> 0, metaLen |-> 0, metaOk |-> FALSE]

\* Sequences of at most n nodes.
SeqUpTo(S, n) == UNION { [1..k -> S] : k \in 0..n }

Init ==
    /\ tree \in SeqUpTo(Nodes, MaxNodes)
    /\ rootMeta \in RootMetadatas
    /\ cancelled = FALSE
    /\ err = Nil
    /\ mainPc = "load"
    /\ mValid = FALSE
    /\ m = EmptyManifest
    /\ f = NoEntry
    /\ result = NoResult
    /\ updates = <<>>
    /\ addLog = <<>>
    /\ storeCalls = 0
    /\ received = <<>>
    /\ walkPc = "idle"
    /\ idx = 1
    /\ pending = NoEntry
    /\ walkResult = Nil
    /\ sendVal = Nil
    /\ errCloses = 0
    /\ entryCloses = 0
    /\ cmd \in Invocations
    /\ r = newWithOptions(OptionsOf(cmd))
    /\ oldFile = NoOldFile
    /\ mEncrypt = FALSE
    /\ puts = {}
    /\ ExportIdle
    /\ PairIdle
    /\ PrinterIdle

\* DirectoryRepair returns (ref, e).
Return(ref, e) ==
    /\ mainPc' = "returned"
    /\ result' = [ref |-> ref, err |-> e]

\* A nil *dirEntry or a nil manifest is dereferenced: the call panics.
Panic ==
    /\ mainPc' = "panicked"
    /\ result' = result

\* ------------------------------------------------ calling task: setup
\* joiner.New, file.JoinReadAll and node.UnmarshalBinary of the root node.
LoadNode ==
    /\ mainPc = "load"
    /\ \E ok \in BOOLEAN :
         IF ok THEN /\ mainPc' = "lookupRoot"
                    /\ err' = Nil
                    /\ result' = result
               ELSE /\ err' = LoadErr
                    /\ Return(ZeroAddress, LoadErr)
    /\ UNCHANGED <<inputVars, sideVars, cancelled, mValid, mEncrypt, m, f, updates, addLog,
                   storeCalls, puts, received, walkVars>>

\* rootNode, err := node.LookupNode(ctx, RootPath, r.ls)
LookupRoot ==
    /\ mainPc = "lookupRoot"
    /\ \E ok \in BOOLEAN :
         IF ok THEN /\ mainPc' = "launch"
                    /\ err' = Nil
                    /\ result' = result
               ELSE /\ err' = LookupErr
                    /\ Return(ZeroAddress, LookupErr)
    /\ UNCHANGED <<inputVars, sideVars, cancelled, mValid, mEncrypt, m, f, updates, addLog,
                   storeCalls, puts, received, walkVars>>

\* errChan := make(chan error); go func() { ... }()
Launch ==
    /\ mainPc = "launch"
    /\ mainPc' = "newManifest"
    /\ walkPc' = "walk"
    /\ UNCHANGED <<inputVars, sideVars, cancelled, err, mValid, mEncrypt, m, f, result, updates,
                   addLog, storeCalls, puts, received, idx, pending, walkResult,
                   sendVal, errCloses, entryCloses>>

\* m, err := manifest.NewDefaultManifest(r.ls, r.encrypt): writes err.
NewManifest ==
    /\ mainPc = "newManifest"
    /\ \E ok \in BOOLEAN :
         /\ err' = IF ok THEN Nil ELSE ManifestErr
         /\ mValid' = ok
    /\ mEncrypt' = r.encrypt
    /\ mainPc' = "checkManifest"
    /\ UNCHANGED <<inputVars, sideVars, cancelled, m, f, result, updates, addLog,
                   storeCalls, puts, received, walkVars>>

\* if err != nil (after NewDefaultManifest): reads err.
CheckManifest ==
    /\ mainPc = "checkManifest"
    /\ mainPc' = IF err # Nil THEN "returnErr" ELSE "addRoot"
    /\ UNCHANGED <<inputVars, sideVars, cancelled, err, mValid, mEncrypt, m, f, result, updates,
                   addLog, storeCalls, puts, received, walkVars>>

\* err = m.Add(ctx, RootPath, NewEntry(ZeroAddress, rootNode.Metadata())):
\* writes err.  A nil manifest cannot be called.
AddRoot ==
    /\ mainPc = "addRoot"
    /\ IF ~mValid
         THEN /\ Panic
              /\ UNCHANGED <<err, m, addLog>>
         ELSE \E ok \in BOOLEAN :
                /\ err' = IF ok THEN Nil ELSE AddRootErr
                /\ m' = IF ok THEN ManifestAdd(m, RootPath, RootEntry) ELSE m
                /\ addLog' = Append(addLog, [path |-> RootPath, ok |-> ok])
                /\ mainPc' = "checkAddRoot"
                /\ result' = result
    /\ UNCHANGED <<inputVars, sideVars, cancelled, mValid, mEncrypt, f, updates, storeCalls, puts,
                   received, walkVars>>

\* if err != nil (after the root Add): reads err.
CheckAddRoot ==
    /\ mainPc = "checkAddRoot"
    /\ mainPc' = IF err # Nil THEN "returnErr" ELSE "select"
    /\ UNCHANGED <<inputVars, sideVars, cancelled, err, mValid, mEncrypt, m, f, result, updates,
                   addLog, storeCalls, puts, received, walkVars>>

\* return nil, err: reads err again; DirectoryRepair returns it when it is
\* not nil and uses the nil *dirEntry when it is.
ReturnSetupErr ==
    /\ mainPc = "returnErr"
    /\ IF err # Nil THEN Return(ZeroAddress, err) ELSE Panic
    /\ UNCHANGED <<inputVars, sideVars, cancelled, err, mValid, mEncrypt, m, f, updates, addLog,
                   storeCalls, puts, received, walkVars>>

\* RecvEntry as it would be if a fentry were lost in the hand-off: the walk
\* goes on past the next node as well.
RecvEntry_Dropping ==
    /\ mainPc = "select"
    /\ walkPc = "sendEntry"
    /\ f' = pending
    /\ received' = Append(received, pending)
    /\ mainPc' = "update"
    /\ walkPc' = "walk"
    /\ idx' = idx + 2
    /\ UNCHANGED <<inputVars, sideVars, cancelled, err, mValid, mEncrypt, m, result, updates,
                   addLog, storeCalls, puts, pending, walkResult, sendVal,
                   errCloses, entryCloses>>

\* ---------------------------------------- calling task: selection loop
\* case f, ok := <-dir.filesC with ok: the rendezvous with the goroutine's
\* entryChan <- fentry, which returns into the walk.
RecvEntry ==
    /\ mainPc = "select"
    /\ walkPc = "sendEntry"
    /\ f' = pending
    /\ received' = Append(received, pending)
    /\ mainPc' = "update"
    /\ walkPc' = "walk"
    /\ idx' = idx + 1
    /\ UNCHANGED <<inputVars, sideVars, cancelled, err, mValid, mEncrypt, m, result, updates,
                   addLog, storeCalls, puts, pending, walkResult, sendVal,
                   errCloses, entryCloses>>

\* case f, ok := <-dir.filesC with !ok: break loop
RecvEntryClosed ==
    /\ mainPc = "select"
    /\ entryCloses > 0
    /\ mainPc' = "store"
    /\ UNCHANGED <<inputVars, sideVars, cancelled, err, mValid, mEncrypt, m, f, result, updates,
                   addLog, storeCalls, puts, received, walkVars>>

\* RecvErr as it would be if the goroutine reported errors in a loop: after
\* the send it goes back to send again.
RecvErr_Resend ==
    /\ mainPc = "select"
    /\ walkPc = "sendErr"
    /\ Return(ZeroAddress, sendVal)
    /\ walkPc' = "evalSend"
    /\ UNCHANGED <<inputVars, sideVars, cancelled, err, mValid, mEncrypt, m, f, updates, addLog,
                   storeCalls, puts, received, idx, pending, walkResult, sendVal,
                   errCloses, entryCloses>>

\* case e, ok := <-dir.errC with ok: return swarm.ZeroAddress, e
RecvErr ==
    /\ mainPc = "select"
    /\ walkPc = "sendErr"
    /\ Return(ZeroAddress, sendVal)
    /\ walkPc' = "closeErr"
    /\ UNCHANGED <<inputVars, sideVars, cancelled, err, mValid, mEncrypt, m, f, updates, addLog,
                   storeCalls, puts, received, idx, pending, walkResult, sendVal,
                   errCloses, entryCloses>>

\* case e, ok := <-dir.errC with !ok: break loop
RecvErrClosed ==
    /\ mainPc = "select"
    /\ errCloses > 0
    /\ mainPc' = "store"
    /\ UNCHANGED <<inputVars, sideVars, cancelled, err, mValid, mEncrypt, m, f, result, updates,
                   addLog, storeCalls, puts, received, walkVars>>

\* CtxDone as it would be if the cancellation case only left the loop
\* (the break loop of its last line) and went on to Store.
CtxDone_BreakLoop ==
    /\ mainPc = "select"
    /\ cancelled
    /\ mainPc' = "store"
    /\ UNCHANGED <<inputVars, sideVars, cancelled, err, mValid, mEncrypt, m, f, result, updates,
                   addLog, storeCalls, puts, received, walkVars>>

\* case <-ctx.Done(): ctx.Err() is not nil once Done is closed.
CtxDone ==
    /\ mainPc = "select"
    /\ cancelled
    /\ Return(ZeroAddress, CtxErr)
    /\ UNCHANGED <<inputVars, sideVars, cancelled, err, mValid, mEncrypt, m, f, updates, addLog,
                   storeCalls, puts, received, walkVars>>

\* Update as it would be if the notification were emitted twice.
Update_Twice ==
    /\ mainPc = "update"
    /\ updates' = Append(Append(updates, f.Filename), f.Filename)
    /\ mainPc' = "add"
    /\ UNCHANGED <<inputVars, sideVars, cancelled, err, mValid, mEncrypt, m, f,
                   result, addLog, storeCalls, puts, received, walkVars>>

\* Update as it would be if no notification were emitted.
Update_Silent ==
    /\ mainPc = "update"
    /\ updates' = updates
    /\ mainPc' = "add"
    /\ UNCHANGED <<inputVars, sideVars, cancelled, err, mValid, mEncrypt, m, f,
                   result, addLog, storeCalls, puts, received, walkVars>>

\* r.updater.Update("Updating reference for file " + f.mtdt.Filename)
Update ==
    /\ mainPc = "update"
    /\ updates' = Append(updates, f.Filename)
    /\ mainPc' = "add"
    /\ UNCHANGED <<inputVars, sideVars, cancelled, err, mValid, mEncrypt, m, f, result, addLog,
                   storeCalls, puts, received, walkVars>>

\* AddEntry as it would be if the error of Add were dropped and the loop
\* went on.
AddEntry_IgnoreErr ==
    /\ mainPc = "add"
    /\ \E ok \in BOOLEAN :
         /\ addLog' = Append(addLog, [path |-> f.filepath, ok |-> ok])
         /\ m' = IF ok THEN ManifestAdd(m, f.filepath, LeafEntry(f)) ELSE m
         /\ mainPc' = "select"
         /\ result' = result
    /\ UNCHANGED <<inputVars, sideVars, cancelled, err, mValid, mEncrypt, f, updates, storeCalls, puts,
                   received, walkVars>>

\* err := dir.m.Add(ctx, f.filepath, NewEntry(...)); return on error.
AddEntry ==
    /\ mainPc = "add"
    /\ \E ok \in BOOLEAN :
         /\ addLog' = Append(addLog, [path |-> f.filepath, ok |-> ok])
         /\ IF ok THEN /\ m' = ManifestAdd(m, f.filepath, LeafEntry(f))
                       /\ mainPc' = "select"
                       /\ result' = result
                  ELSE /\ m' = m
                       /\ Return(ZeroAddress, AddErr)
    /\ UNCHANGED <<inputVars, sideVars, cancelled, err, mValid, mEncrypt, f, updates, storeCalls, puts,
                   received, walkVars>>

\* newReference, err := dir.m.Store(ctx)
Store ==
    /\ mainPc = "store"
    /\ storeCalls' = storeCalls + 1
    /\ \E ok \in BOOLEAN :
         IF ok THEN /\ Return(NewReference, Nil)
                    /\ puts' = Save(r.ls, puts)
               ELSE /\ Return(ZeroAddress, StoreErr)
                    /\ puts' = puts
    /\ UNCHANGED <<inputVars, sideVars, cancelled, err, mValid, mEncrypt, m, f, updates, addLog,
                   received, walkVars>>

\* The caller cancels ctx while the call runs.
Cancel ==
    /\ ~cancelled
    /\ mainPc \notin {"returned", "panicked"}
    /\ cancelled' = TRUE
    /\ UNCHANGED <<inputVars, sideVars, err, mainVars, walkVars>>

\* ---------------------------------------------------- the walk goroutine
\* node.Walk reports a directory: walkFn returns nil.
WalkVisitDir ==
    /\ walkPc = "walk"
    /\ idx <= Len(tree)
    /\ tree[idx].isDir
    /\ idx' = idx + 1
    /\ UNCHANGED <<inputVars, sideVars, cancelled, err, mainVars, walkPc, pending,
                   walkResult, sendVal, errCloses, entryCloses>>

\* WalkVisitLeaf as it would be with a buffered entryChan: the send does
\* not wait for the receiver and the walk goes on.
WalkVisitLeaf_NoWait ==
    /\ walkPc = "walk"
    /\ idx <= Len(tree)
    /\ ~tree[idx].isDir
    /\ pending' = FileEntry(idx)
    /\ idx' = idx + 1
    /\ UNCHANGED <<inputVars, sideVars, cancelled, err, mainVars, walkPc, walkResult,
                   sendVal, errCloses, entryCloses>>

\* node.Walk reports a leaf: walkFn looks the node up, reads its old file
\* entry and starts entryChan <- fentry.
WalkVisitLeaf ==
    /\ walkPc = "walk"
    /\ idx <= Len(tree)
    /\ ~tree[idx].isDir
    /\ pending' = FileEntry(idx)
    /\ walkPc' = "sendEntry"
    /\ UNCHANGED <<inputVars, sideVars, cancelled, err, mainVars, idx, walkResult,
                   sendVal, errCloses, entryCloses>>

\* Loading a node, LookupNode or getOldFileEntry fails: node.Walk returns
\* the error.
WalkFail ==
    /\ walkPc = "walk"
    /\ walkResult' = WalkErr
    /\ walkPc' = "assign"
    /\ UNCHANGED <<inputVars, sideVars, cancelled, err, mainVars, idx, pending, sendVal,
                   errCloses, entryCloses>>

\* node.Walk has visited every node and returns nil.
WalkReturn ==
    /\ walkPc = "walk"
    /\ idx > Len(tree)
    /\ walkResult' = Nil
    /\ walkPc' = "assign"
    /\ UNCHANGED <<inputVars, sideVars, cancelled, err, mainVars, idx, pending, sendVal,
                   errCloses, entryCloses>>

\* err = node.Walk(...): writes the captured err.
WalkAssignErr ==
    /\ walkPc = "assign"
    /\ err' = walkResult
    /\ walkPc' = "checkErr"
    /\ UNCHANGED <<inputVars, sideVars, cancelled, mainVars, idx, pending, walkResult,
                   sendVal, errCloses, entryCloses>>

\* if err != nil: reads the captured err.
WalkCheckErr ==
    /\ walkPc = "checkErr"
    /\ walkPc' = IF err # Nil THEN "evalSend" ELSE "closeErr"
    /\ UNCHANGED <<inputVars, sideVars, cancelled, err, mainVars, idx, pending,
                   walkResult, sendVal, errCloses, entryCloses>>

\* errChan <- err: the operand is evaluated (err is read), then the send
\* waits for the receiver.
WalkEvalSend ==
    /\ walkPc = "evalSend"
    /\ sendVal' = err
    /\ walkPc' = "sendErr"
    /\ UNCHANGED <<inputVars, sideVars, cancelled, err, mainVars, idx, pending,
                   walkResult, errCloses, entryCloses>>

\* defer close(errChan): deferred last, so it runs first.
WalkCloseErr ==
    /\ walkPc = "closeErr"
    /\ errCloses' = errCloses + 1
    /\ walkPc' = "closeEntry"
    /\ UNCHANGED <<inputVars, sideVars, cancelled, err, mainVars, idx, pending,
                   walkResult, sendVal, entryCloses>>

\* defer close(entryChan)
WalkCloseEntry ==
    /\ walkPc = "closeEntry"
    /\ entryCloses' = entryCloses + 1
    /\ walkPc' = "done"
    /\ UNCHANGED <<inputVars, sideVars, cancelled, err, mainVars, idx, pending,
                   walkResult, sendVal, errCloses>>

MainNext ==
    \/ LoadNode
    \/ LookupRoot
    \/ Launch
    \/ NewManifest
    \/ CheckManifest
    \/ AddRoot
    \/ CheckAddRoot
    \/ ReturnSetupErr
    \/ RecvEntry
    \/ RecvEntryClosed
    \/ RecvErr
    \/ RecvErrClosed
    \/ CtxDone
    \/ Update
    \/ AddEntry
    \/ Store

WalkNext ==
    \/ WalkVisitDir
    \/ WalkVisitLeaf
    \/ WalkFail
    \/ WalkReturn
    \/ WalkAssignErr
    \/ WalkCheckErr
    \/ WalkEvalSend
    \/ WalkCloseErr
    \/ WalkCloseEntry

Next ==
    \/ MainNext
    \/ WalkNext
    \/ Cancel

Spec == Init /\ [][Next]_vars

\* ------------------------------------------------------------ FileRepair
\* limitMetadataLength = swarm.ChunkSize
limitMetadataLength == 4096

\* Length of a serialized legacy entry (reference and metadata reference).
EntrySize == 64

ReadErr == "readErr"
LimitErr == "limitErr"
EntryDecodeErr == "entryDecodeErr"
MetadataDecodeErr == "metadataDecodeErr"

\* The stored legacy files: length of the entry blob, length of the
\* metadata blob, and whether the metadata blob is well-formed JSON.
OldFiles ==
    [entryLen : {EntrySize, EntrySize + 1, limitMetadataLength + 1},
     metaLen : {30, limitMetadataLength, limitMetadataLength + 1},
     metaOk : BOOLEAN]

\* A write of n bytes through the limit writer fails beyond the limit.
LimitWrite(n, limit) == IF n > limit THEN LimitErr ELSE Nil

\* A write of n bytes into a bytes.Buffer takes any length.
BufferWrite(n) == Nil

\* Entry.UnmarshalBinary: the blob must have the length of an entry.
EntryUnmarshal(n) == IF n = EntrySize THEN Nil ELSE EntryDecodeErr

\* getOldFileEntry once the store delivers both blobs: the entry is read
\* through limitBuf and decoded; the metadata is read into a plain buffer
\* and decoded as JSON.  Nil when it returns a fileEntry.
getOldFileEntry(file) ==
    IF LimitWrite(file.entryLen, limitMetadataLength) # Nil
      THEN LimitWrite(file.entryLen, limitMetadataLength)
    ELSE IF EntryUnmarshal(file.entryLen) # Nil
      THEN EntryUnmarshal(file.entryLen)
    ELSE IF BufferWrite(file.metaLen) # Nil
      THEN BufferWrite(file.metaLen)
    ELSE IF ~file.metaOk
      THEN MetadataDecodeErr
    ELSE Nil

\* The manifest key of a file entry is its filename, a name other than the
\* root path; the manifest keys of the model are numbers.
FilePath(name) == IF name = "a.txt" THEN 1 ELSE 2

\* FileRootEntry as it would be without the index document.
FileRootEntry_NoIndex(fe) == NewEntry(ZeroAddress, EmptyMetadata)

\* The root entry FileRepair adds: the filename as index document.
FileRootEntry(fe) ==
    NewEntry(ZeroAddress, [EmptyMetadata EXCEPT !.index = fe.Filename])

InitFile ==
    /\ tree \in {<<LeafNode(e)>> : e \in OldFileEntries}
    /\ rootMeta = [index |-> "", error |-> ""]
    /\ cancelled = FALSE
    /\ err = Nil
    /\ mainPc = "fileRead"
    /\ mValid = FALSE
    /\ m = EmptyManifest
    /\ f = NoEntry
    /\ result = NoResult
    /\ updates = <<>>
    /\ addLog = <<>>
    /\ storeCalls = 0
    /\ received = <<>>
    /\ walkPc = "idle"
    /\ idx = 1
    /\ pending = NoEntry
    /\ walkResult = Nil
    /\ sendVal = Nil
    /\ errCloses = 0
    /\ entryCloses = 0
    /\ cmd \in Invocations
    /\ r = newWithOptions(OptionsOf(cmd))
    /\ oldFile \in OldFiles
    /\ mEncrypt = FALSE
    /\ puts = {}
    /\ ExportIdle
    /\ PairIdle
    /\ PrinterIdle

\* oldEntry, err := r.getOldFileEntry(ctx, addr)
FileGetOldEntry ==
    /\ mainPc = "fileRead"
    /\ \E storeOk \in BOOLEAN :
         LET e == IF storeOk THEN getOldFileEntry(oldFile) ELSE ReadErr
         IN  IF e = Nil
               THEN /\ f' = [NoEntry EXCEPT !.reference = tree[1].reference,
                                           !.Filename = tree[1].Filename,
                                           !.MimeType = tree[1].MimeType]
                    /\ mainPc' = "fileUpdate"
                    /\ result' = result
               ELSE /\ f' = f
                    /\ Return(ZeroAddress, e)
    /\ UNCHANGED <<inputVars, sideVars, cancelled, err, mValid, mEncrypt, m, updates,
                   addLog, storeCalls, puts, received, walkVars>>

\* r.updater.Update("Updating reference for file " + oldEntry.mtdt.Filename)
FileUpdate ==
    /\ mainPc = "fileUpdate"
    /\ updates' = Append(updates, f.Filename)
    /\ mainPc' = "fileNewManifest"
    /\ UNCHANGED <<inputVars, sideVars, cancelled, err, mValid, mEncrypt, m, f, result,
                   addLog, storeCalls, puts, received, walkVars>>

\* newManifest, err := manifest.NewDefaultManifest(r.ls, false)
FileNewManifest ==
    /\ mainPc = "fileNewManifest"
    /\ mEncrypt' = FALSE
    /\ \E ok \in BOOLEAN :
         /\ mValid' = ok
         /\ IF ok THEN /\ mainPc' = "fileAddRoot"
                       /\ result' = result
                  ELSE Return(ZeroAddress, ManifestErr)
    /\ UNCHANGED <<inputVars, sideVars, cancelled, err, m, f, updates, addLog,
                   storeCalls, puts, received, walkVars>>

\* FileAddRoot as it would be if the error of the Add were dropped.
FileAddRoot_IgnoreErr ==
    /\ mainPc = "fileAddRoot"
    /\ \E ok \in BOOLEAN :
         /\ addLog' = Append(addLog, [path |-> RootPath, ok |-> ok])
         /\ m' = IF ok THEN ManifestAdd(m, RootPath, FileRootEntry(f)) ELSE m
         /\ mainPc' = "fileAddEntry"
         /\ result' = result
    /\ UNCHANGED <<inputVars, sideVars, cancelled, err, mValid, mEncrypt, f, updates,
                   storeCalls, puts, received, walkVars>>

\* err = newManifest.Add(ctx, RootPath, NewEntry(ZeroAddress, index document))
FileAddRoot ==
    /\ mainPc = "fileAddRoot"
    /\ \E ok \in BOOLEAN :
         /\ addLog' = Append(addLog, [path |-> RootPath, ok |-> ok])
         /\ IF ok THEN /\ m' = ManifestAdd(m, RootPath, FileRootEntry(f))
                       /\ mainPc' = "fileAddEntry"
                       /\ result' = result
                  ELSE /\ m' = m
                       /\ Return(ZeroAddress, AddRootErr)
    /\ UNCHANGED <<inputVars, sideVars, cancelled, err, mValid, mEncrypt, f, updates,
                   storeCalls, puts, received, walkVars>>

\* err = newManifest.Add(ctx, Filename, NewEntry(reference, Filename, MimeType))
FileAddEntry ==
    /\ mainPc = "fileAddEntry"
    /\ \E ok \in BOOLEAN :
         /\ addLog' = Append(addLog, [path |-> FilePath(f.Filename), ok |-> ok])
         /\ IF ok THEN /\ m' = ManifestAdd(m, FilePath(f.Filename), LeafEntry(f))
                       /\ mainPc' = "fileStore"
                       /\ result' = result
                  ELSE /\ m' = m
                       /\ Return(ZeroAddress, AddErr)
    /\ UNCHANGED <<inputVars, sideVars, cancelled, err, mValid, mEncrypt, f, updates,
                   storeCalls, puts, received, walkVars>>

\* newReference, err := newManifest.Store(ctx)
FileStore ==
    /\ mainPc = "fileStore"
    /\ storeCalls' = storeCalls + 1
    /\ \E ok \in BOOLEAN :
         IF ok THEN /\ Return(NewReference, Nil)
                    /\ puts' = Save(r.ls, puts)
               ELSE /\ Return(ZeroAddress, StoreErr)
                    /\ puts' = puts
    /\ UNCHANGED <<inputVars, sideVars, cancelled, err, mValid, mEncrypt, m, f, updates,
                   addLog, received, walkVars>>

NextFile ==
    \/ FileGetOldEntry
    \/ FileUpdate
    \/ FileNewManifest
    \/ FileAddRoot
    \/ FileAddEntry
    \/ FileStore

\* One FileRepair call.
SpecFile == InitFile /\ [][NextFile]_vars

\* One call of either entry point.
InitRepair == Init \/ InitFile

NextRepair == Next \/ NextFile

SpecRepair == InitRepair /\ [][NextRepair]_vars

\* ------------------------------------------------------------ Export
\* Largest number of items in the retrieval index.
MaxRecords == 3

ExportVersionFilename == ".swarm-export-version"

\* CurrentExportVersion = "1", as its bytes.
CurrentExportVersion == <<49>>

NewDBErr == "newDBErr"
NewIndexErr == "newIndexErr"
CountErr == "countErr"
CreateErr == "createErr"
HeaderErr == "headerErr"
WriteErr == "writeErr"
IterErr == "iterErr"

\* errors.New("Invalid source directory err:" + err.Error())
InvalidSource(e) == "Invalid source directory err:" \o e

HexDigits ==
    <<"0", "1", "2", "3", "4", "5", "6", "7",
      "8", "9", "a", "b", "c", "d", "e", "f">>

RECURSIVE EncodeToString(_)
\* hex.EncodeToString: two lower-case digits for each byte.
EncodeToString(bytes) ==
    IF bytes = <<>> THEN ""
    ELSE HexDigits[(Head(bytes) \div 16) + 1]
           \o HexDigits[(Head(bytes) % 16) + 1]
           \o EncodeToString(Tail(bytes))

\* The keys of the index (chunk addresses, as bytes) and the stored data.
Addresses == { <<43 * k>> : k \in 1..MaxRecords }
Datas == { <<>>, <<7>>, <<7, 8>> }
Items == [Address : Addresses, Data : Datas]

\* The contents an index can have: items in ascending key order.
IndexContents ==
    { recs \in SeqUpTo(Items, MaxRecords) :
        \A i \in 1..Len(recs), j \in 1..Len(recs) :
            i < j => recs[i].Address[1] < recs[j].Address[1] }

\* tar.Header{Name, Mode: 0644, Size}, and the payload written after it.
TarHeader(name, size) == [Name |-> name, Size |-> size, payload |-> <<>>]

\* tw.Write(b): the bytes are the payload of the entry written last.
TarWrite(tar, b) ==
    [tar EXCEPT ![Len(tar)].payload = tar[Len(tar)].payload \o b]

\* No repair call is running.
RepairIdle ==
    /\ tree = <<>>
    /\ rootMeta = [index |-> "", error |-> ""]
    /\ cancelled = FALSE
    /\ err = Nil
    /\ mainPc = "idle"
    /\ mValid = FALSE
    /\ m = EmptyManifest
    /\ f = NoEntry
    /\ result = NoResult
    /\ updates = <<>>
    /\ addLog = <<>>
    /\ storeCalls = 0
    /\ received = <<>>
    /\ walkPc = "idle"
    /\ idx = 1
    /\ pending = NoEntry
    /\ walkResult = Nil
    /\ sendVal = Nil
    /\ errCloses = 0
    /\ entryCloses = 0
    /\ cmd = [viaCmd |-> TRUE, pin |-> FALSE, encrypted |-> FALSE]
    /\ r = newWithOptions(OptionsOf(cmd))
    /\ oldFile = NoOldFile
    /\ mEncrypt = FALSE
    /\ puts = {}

repairVars == <<inputVars, cancelled, err, mainVars, walkVars>>

InitExport ==
    /\ RepairIdle
    /\ PairIdle
    /\ PrinterIdle
    /\ records \in IndexContents
    /\ expPc = "newDB"
    /\ total = 0
    /\ doneCount = 0
    /\ pos = 1
    /\ archive = <<>>
    /\ progress = <<>>
    /\ dbState = "unopened"
    /\ twState = "none"
    /\ expResult = ""

\* export returns e: the deferred tw.Close() and e.closer.Close() run.
ExportReturn(e) ==
    /\ expPc' = "done"
    /\ expResult' = e
    /\ twState' = IF twState = "open" THEN "closed" ELSE twState
    /\ dbState' = "closed"

\* Export returns the error of newExporter; export and its defers never ran.
NewExporterFail(e) ==
    /\ expPc' = "done"
    /\ expResult' = InvalidSource(e)
    /\ twState' = twState

\* s, e := shed.NewDB(src, nil)
ExpNewDB ==
    /\ expPc = "newDB"
    /\ \E ok \in BOOLEAN :
         IF ok THEN /\ dbState' = "open"
                    /\ expPc' = "newIndex"
                    /\ UNCHANGED <<expResult, twState>>
               ELSE /\ dbState' = dbState
                    /\ NewExporterFail(NewDBErr)
    /\ UNCHANGED <<repairVars, pairVars, printerVars, records, total, doneCount, pos, archive, progress>>

\* index, err = s.NewIndex(...); closer = s; newExporter: if err != nil
ExpNewIndex ==
    /\ expPc = "newIndex"
    /\ \E ok \in BOOLEAN :
         IF ok THEN /\ expPc' = "count"
                    /\ UNCHANGED <<expResult, twState>>
               ELSE NewExporterFail(NewIndexErr)
    /\ dbState' = dbState
    /\ UNCHANGED <<repairVars, pairVars, printerVars, records, total, doneCount, pos, archive, progress>>

\* ExpCount as it would be if the error of Count were dropped.
ExpCount_IgnoreErr ==
    /\ expPc = "count"
    /\ \E ok \in BOOLEAN :
         /\ total' = IF ok THEN Len(records) ELSE total
         /\ expPc' = "create"
         /\ UNCHANGED <<expResult, twState, dbState>>
    /\ UNCHANGED <<repairVars, pairVars, printerVars, records, doneCount, pos,
                   archive, progress>>

\* ExpCount as it would be if Count reported one item too many.
ExpCount_OffByOne ==
    /\ expPc = "count"
    /\ \E ok \in BOOLEAN :
         IF ok THEN /\ total' = Len(records) + 1
                    /\ expPc' = "create"
                    /\ UNCHANGED <<expResult, twState, dbState>>
               ELSE /\ total' = total
                    /\ ExportReturn(CountErr)
    /\ UNCHANGED <<repairVars, pairVars, printerVars, records, doneCount, pos, archive, progress>>

\* total, err := e.retrievalIndex.Count()
ExpCount ==
    /\ expPc = "count"
    /\ \E ok \in BOOLEAN :
         IF ok THEN /\ total' = Len(records)
                    /\ expPc' = "create"
                    /\ UNCHANGED <<expResult, twState, dbState>>
               ELSE /\ total' = total
                    /\ ExportReturn(CountErr)
    /\ UNCHANGED <<repairVars, pairVars, printerVars, records, doneCount, pos, archive, progress>>

\* dstF, err := os.Create(e.dstFile); tw := tar.NewWriter(dstF)
ExpCreate ==
    /\ expPc = "create"
    /\ \E ok \in BOOLEAN :
         IF ok THEN /\ twState' = "open"
                    /\ expPc' = "versionHeader"
                    /\ UNCHANGED <<expResult, dbState>>
               ELSE ExportReturn(CreateErr)
    /\ UNCHANGED <<repairVars, pairVars, printerVars, records, total, doneCount, pos, archive, progress>>

\* tw.WriteHeader(&tar.Header{Name: ExportVersionFilename, ...})
ExpVersionHeader ==
    /\ expPc = "versionHeader"
    /\ \E ok \in BOOLEAN :
         IF ok THEN /\ archive' = Append(archive,
                          TarHeader(ExportVersionFilename, Len(CurrentExportVersion)))
                    /\ expPc' = "versionPayload"
                    /\ UNCHANGED <<expResult, twState, dbState>>
               ELSE /\ archive' = archive
                    /\ ExportReturn(HeaderErr)
    /\ UNCHANGED <<repairVars, pairVars, printerVars, records, total, doneCount, pos, progress>>

\* tw.Write([]byte(CurrentExportVersion))
ExpVersionPayload ==
    /\ expPc = "versionPayload"
    /\ \E ok \in BOOLEAN :
         IF ok THEN /\ archive' = TarWrite(archive, CurrentExportVersion)
                    /\ expPc' = "firstUpdate"
                    /\ UNCHANGED <<expResult, twState, dbState>>
               ELSE /\ archive' = archive
                    /\ ExportReturn(WriteErr)
    /\ UNCHANGED <<repairVars, pairVars, printerVars, records, total, doneCount, pos, progress>>

\* doneCount := 0; e.updater.Update(doneCount, total)
ExpFirstUpdate ==
    /\ expPc = "firstUpdate"
    /\ doneCount' = 0
    /\ progress' = Append(progress, <<0, total>>)
    /\ expPc' = "iterate"
    /\ UNCHANGED <<repairVars, pairVars, printerVars, records, total, pos, archive, dbState, twState,
                   expResult>>

\* Iterate hands the next item to the function.
ExpIterNext ==
    /\ expPc = "iterate"
    /\ pos <= Len(records)
    /\ expPc' = "recHeader"
    /\ UNCHANGED <<repairVars, pairVars, printerVars, records, total, doneCount, pos, archive, progress,
                   dbState, twState, expResult>>

\* Iterate fails reading the next item and returns the error.
ExpIterFail ==
    /\ expPc = "iterate"
    /\ pos <= Len(records)
    /\ ExportReturn(IterErr)
    /\ UNCHANGED <<repairVars, pairVars, printerVars, records, total, doneCount, pos, archive, progress>>

\* Iterate has handed over every item and returns nil.
ExpIterEnd ==
    /\ expPc = "iterate"
    /\ pos > Len(records)
    /\ ExportReturn(Nil)
    /\ UNCHANGED <<repairVars, pairVars, printerVars, records, total, doneCount, pos, archive, progress>>

\* ExpRecHeader as it would be if the entry were put in front of the archive.
ExpRecHeader_InFront ==
    /\ expPc = "recHeader"
    /\ \E ok \in BOOLEAN :
         IF ok THEN /\ archive' = <<TarHeader(EncodeToString(records[pos].Address),
                                              Len(records[pos].Data))>> \o archive
                    /\ expPc' = "recPayload"
                    /\ UNCHANGED <<expResult, twState, dbState>>
               ELSE /\ archive' = archive
                    /\ ExportReturn(HeaderErr)
    /\ UNCHANGED <<repairVars, pairVars, printerVars, records, total, doneCount, pos, progress>>

\* tw.WriteHeader(hdr) for the item
ExpRecHeader ==
    /\ expPc = "recHeader"
    /\ \E ok \in BOOLEAN :
         IF ok THEN /\ archive' = Append(archive,
                          TarHeader(EncodeToString(records[pos].Address),
                                    Len(records[pos].Data)))
                    /\ expPc' = "recPayload"
                    /\ UNCHANGED <<expResult, twState, dbState>>
               ELSE /\ archive' = archive
                    /\ ExportReturn(HeaderErr)
    /\ UNCHANGED <<repairVars, pairVars, printerVars, records, total, doneCount, pos, progress>>

\* ExpRecPayload as it would be if the error of the write were dropped.
ExpRecPayload_IgnoreErr ==
    /\ expPc = "recPayload"
    /\ \E ok \in BOOLEAN :
         /\ archive' = IF ok THEN TarWrite(archive, records[pos].Data) ELSE archive
         /\ expPc' = "recUpdate"
         /\ UNCHANGED <<expResult, twState, dbState>>
    /\ UNCHANGED <<repairVars, pairVars, printerVars, records, total, doneCount, pos, progress>>

\* tw.Write(item.Data)
ExpRecPayload ==
    /\ expPc = "recPayload"
    /\ \E ok \in BOOLEAN :
         IF ok THEN /\ archive' = TarWrite(archive, records[pos].Data)
                    /\ expPc' = "recUpdate"
                    /\ UNCHANGED <<expResult, twState, dbState>>
               ELSE /\ archive' = archive
                    /\ ExportReturn(WriteErr)
    /\ UNCHANGED <<repairVars, pairVars, printerVars, records, total, doneCount, pos, progress>>

\* ExpRecUpdate as it would be without doneCount++.
ExpRecUpdate_NoCount ==
    /\ expPc = "recUpdate"
    /\ doneCount' = doneCount
    /\ progress' = Append(progress, <<doneCount, total>>)
    /\ pos' = pos + 1
    /\ expPc' = "iterate"
    /\ UNCHANGED <<repairVars, pairVars, printerVars, records, total, archive, dbState, twState,
                   expResult>>

\* Iterate as it would be if it left out the item after each one handed over.
ExpRecUpdate_Skip ==
    /\ expPc = "recUpdate"
    /\ doneCount' = doneCount + 1
    /\ progress' = Append(progress, <<doneCount + 1, total>>)
    /\ pos' = pos + 2
    /\ expPc' = "iterate"
    /\ UNCHANGED <<repairVars, pairVars, printerVars, records, total, archive, dbState, twState,
                   expResult>>

\* doneCount++; e.updater.Update(doneCount, total); return false, nil
ExpRecUpdate ==
    /\ expPc = "recUpdate"
    /\ doneCount' = doneCount + 1
    /\ progress' = Append(progress, <<doneCount + 1, total>>)
    /\ pos' = pos + 1
    /\ expPc' = "iterate"
    /\ UNCHANGED <<repairVars, pairVars, printerVars, records, total, archive, dbState, twState,
                   expResult>>

NextExport ==
    \/ ExpNewDB
    \/ ExpNewIndex
    \/ ExpCount
    \/ ExpCreate
    \/ ExpVersionHeader
    \/ ExpVersionPayload
    \/ ExpFirstUpdate
    \/ ExpIterNext
    \/ ExpIterFail
    \/ ExpIterEnd
    \/ ExpRecHeader
    \/ ExpRecPayload
    \/ ExpRecUpdate

\* One Export call.
SpecExport == InitExport /\ [][NextExport]_vars

\* ------------------------------------------------------------ two calls
\* Two DirectoryRepair calls run at the same time.  A channel or a manifest
\* is the number it got when it was created.
Calls == {1, 2}

\* Largest number of leaves in the legacy directory of one call.
MaxPairLeaves == 2

\* The fentry the walk of call c makes for its leaf i.
PairEntry(c, i) == [call |-> c, filepath |-> i]

\* The error the walk of call c returns.
PairWalkErr(c) == [call |-> c, err |-> WalkErr]

InitPair ==
    /\ RepairIdle
    /\ ExportIdle
    /\ PrinterIdle
    /\ pairTree \in [Calls -> 0..MaxPairLeaves]
    /\ pairPc = [c \in Calls |-> "start"]
    /\ pairWalkPc = [c \in Calls |-> "idle"]
    /\ pairIdx = [c \in Calls |-> 1]
    /\ pairPending = [c \in Calls |-> PairEntry(c, 0)]
    /\ pairObjs = 0
    /\ pairEntryChan = [c \in Calls |-> 0]
    /\ pairErrChan = [c \in Calls |-> 0]
    /\ pairM = [c \in Calls |-> 0]
    /\ pairClosed = {}
    /\ pairContent = {}
    /\ pairGot = [c \in Calls |-> {}]

\* getOldDirectoryEntry as it would be if entryChan and errChan were
\* variables of the package, made once.
PairGetOldDirectoryEntry_SharedChannels(c) ==
    /\ pairPc[c] = "start"
    /\ \E ok \in BOOLEAN :
         IF ok
           THEN /\ pairEntryChan' = [pairEntryChan EXCEPT ![c] = 1]
                /\ pairErrChan' = [pairErrChan EXCEPT ![c] = 2]
                /\ pairM' = [pairM EXCEPT ![c] = pairObjs + 3]
                /\ pairObjs' = pairObjs + 3
                /\ pairWalkPc' = [pairWalkPc EXCEPT ![c] = "walk"]
                /\ pairPc' = [pairPc EXCEPT ![c] = "select"]
           ELSE /\ pairPc' = [pairPc EXCEPT ![c] = "returned"]
                /\ UNCHANGED <<pairEntryChan, pairErrChan, pairM, pairObjs,
                               pairWalkPc>>
    /\ UNCHANGED <<repairVars, exportVars, printerVars, pairTree, pairIdx, pairPending,
                   pairClosed, pairContent, pairGot>>

\* getOldDirectoryEntry of call c: entryChan := make(...), errChan :=
\* make(...), go func() {...}(), m := NewDefaultManifest(...); or an error
\* before the goroutine is launched.
PairGetOldDirectoryEntry(c) ==
    /\ pairPc[c] = "start"
    /\ \E ok \in BOOLEAN :
         IF ok
           THEN /\ pairEntryChan' = [pairEntryChan EXCEPT ![c] = pairObjs + 1]
                /\ pairErrChan' = [pairErrChan EXCEPT ![c] = pairObjs + 2]
                /\ pairM' = [pairM EXCEPT ![c] = pairObjs + 3]
                /\ pairObjs' = pairObjs + 3
                /\ pairWalkPc' = [pairWalkPc EXCEPT ![c] = "walk"]
                /\ pairPc' = [pairPc EXCEPT ![c] = "select"]
           ELSE /\ pairPc' = [pairPc EXCEPT ![c] = "returned"]
                /\ UNCHANGED <<pairEntryChan, pairErrChan, pairM, pairObjs,
                               pairWalkPc>>
    /\ UNCHANGED <<repairVars, exportVars, printerVars, pairTree, pairIdx, pairPending,
                   pairClosed, pairContent, pairGot>>

\* walkFn of call w reaches entryChan <- fentry for its next leaf.
PairWalkLeaf(w) ==
    /\ pairWalkPc[w] = "walk"
    /\ pairIdx[w] <= pairTree[w]
    /\ pairPending' = [pairPending EXCEPT ![w] = PairEntry(w, pairIdx[w])]
    /\ pairWalkPc' = [pairWalkPc EXCEPT ![w] = "sendEntry"]
    /\ UNCHANGED <<repairVars, exportVars, printerVars, pairTree, pairPc, pairIdx, pairObjs,
                   pairEntryChan, pairErrChan, pairM, pairClosed, pairContent,
                   pairGot>>

\* node.Walk of call w fails: the goroutine reaches errChan <- err.
PairWalkFail(w) ==
    /\ pairWalkPc[w] = "walk"
    /\ pairPending' = [pairPending EXCEPT ![w] = PairWalkErr(w)]
    /\ pairWalkPc' = [pairWalkPc EXCEPT ![w] = "sendErr"]
    /\ UNCHANGED <<repairVars, exportVars, printerVars, pairTree, pairPc, pairIdx, pairObjs,
                   pairEntryChan, pairErrChan, pairM, pairClosed, pairContent,
                   pairGot>>

\* node.Walk of call w returns nil: the deferred closes run.
PairWalkEnd(w) ==
    /\ pairWalkPc[w] = "walk"
    /\ pairIdx[w] > pairTree[w]
    /\ pairClosed' = pairClosed \cup {pairEntryChan[w], pairErrChan[w]}
    /\ pairWalkPc' = [pairWalkPc EXCEPT ![w] = "done"]
    /\ UNCHANGED <<repairVars, exportVars, printerVars, pairTree, pairPc, pairIdx, pairPending,
                   pairObjs, pairEntryChan, pairErrChan, pairM, pairContent,
                   pairGot>>

\* case f := <-dir.filesC of call c, from the goroutine w that is sending on
\* that channel; Update; dir.m.Add.
PairRecvEntry(c, w) ==
    /\ pairPc[c] = "select"
    /\ pairWalkPc[w] = "sendEntry"
    /\ pairEntryChan[w] = pairEntryChan[c]
    /\ pairWalkPc' = [pairWalkPc EXCEPT ![w] = "walk"]
    /\ pairIdx' = [pairIdx EXCEPT ![w] = pairIdx[w] + 1]
    /\ pairContent' = pairContent \cup {[m |-> pairM[c], entry |-> pairPending[w]]}
    /\ \E ok \in BOOLEAN :
         pairPc' = [pairPc EXCEPT ![c] = IF ok THEN "select" ELSE "returned"]
    /\ UNCHANGED <<repairVars, exportVars, printerVars, pairTree, pairPending, pairObjs,
                   pairEntryChan, pairErrChan, pairM, pairClosed, pairGot>>

\* case e := <-dir.errC of call c, from the goroutine w that is sending on
\* that channel: return e.  The goroutine goes on to its deferred closes.
PairRecvErr(c, w) ==
    /\ pairPc[c] = "select"
    /\ pairWalkPc[w] = "sendErr"
    /\ pairErrChan[w] = pairErrChan[c]
    /\ pairGot' = [pairGot EXCEPT ![c] = @ \cup {pairPending[w]}]
    /\ pairPc' = [pairPc EXCEPT ![c] = "returned"]
    /\ pairWalkPc' = [pairWalkPc EXCEPT ![w] = "done"]
    /\ pairClosed' = pairClosed \cup {pairEntryChan[w], pairErrChan[w]}
    /\ UNCHANGED <<repairVars, exportVars, printerVars, pairTree, pairIdx, pairPending,
                   pairObjs, pairEntryChan, pairErrChan, pairM, pairContent>>

\* case <-dir.filesC of call c with the channel closed: break; Store.
PairRecvClosed(c) ==
    /\ pairPc[c] = "select"
    /\ pairEntryChan[c] \in pairClosed
    /\ \A w \in Calls :
         ~(pairWalkPc[w] = "sendEntry" /\ pairEntryChan[w] = pairEntryChan[c])
    /\ pairPc' = [pairPc EXCEPT ![c] = "stored"]
    /\ UNCHANGED <<repairVars, exportVars, printerVars, pairTree, pairWalkPc, pairIdx,
                   pairPending, pairObjs, pairEntryChan, pairErrChan, pairM,
                   pairClosed, pairContent, pairGot>>

NextPair ==
    \/ \E c \in Calls : PairGetOldDirectoryEntry(c)
    \/ \E w \in Calls : PairWalkLeaf(w)
    \/ \E w \in Calls : PairWalkFail(w)
    \/ \E w \in Calls : PairWalkEnd(w)
    \/ \E c \in Calls, w \in Calls : PairRecvEntry(c, w)
    \/ \E c \in Calls, w \in Calls : PairRecvErr(c, w)
    \/ \E c \in Calls : PairRecvClosed(c)

\* Two concurrent DirectoryRepair calls.
SpecPair == InitPair /\ [][NextPair]_vars

\* ------------------------------------------------------------ export-db
\* Largest number of lines the printer prints.
MaxPrints == 4

\* percentUpdater.Update under the mutex: p.curr, p.total hold the
\* arguments of the last call, and zero before the first.
Updater ==
    IF progress = <<>>
      THEN [curr |-> 0, total |-> 0]
      ELSE [curr |-> progress[Len(progress)][1],
            total |-> progress[Len(progress)][2]]

\* Percent as it would be without the division.
Percent_NoDivision(curr, tot) == curr * 100

\* curr*100/total, as printed by "Progress %d %%".
Percent(curr, tot) == (curr * 100) \div tot

\* exportDB RunE: updater.start(cmd.Context()) has launched the printer and
\* exporter.Export is about to run.
InitExportDB ==
    /\ RepairIdle
    /\ PairIdle
    /\ records \in {recs \in IndexContents :
                      \A i \in 1..Len(recs) : recs[i].Data = <<7>>}
    /\ expPc = "newDB"
    /\ total = 0
    /\ doneCount = 0
    /\ pos = 1
    /\ archive = <<>>
    /\ progress = <<>>
    /\ dbState = "unopened"
    /\ twState = "none"
    /\ expResult = ""
    /\ prPc = "read"
    /\ prCurr = 0
    /\ prTotal = 0
    /\ prComplete = FALSE
    /\ printed = <<>>
    /\ ctxDone = FALSE

\* p.mtx.Lock(); curr, total := p.curr, p.total; p.mtx.Unlock()
PrRead ==
    /\ prPc = "read"
    /\ prCurr' = Updater.curr
    /\ prTotal' = Updater.total
    /\ prPc' = "print"
    /\ UNCHANGED <<repairVars, pairVars, exportVars, prComplete, printed, ctxDone>>

\* if total != 0 { fmt.Printf("Progress %d %%\n", curr*100/total) }
PrPrint ==
    /\ prPc = "print"
    /\ prTotal # 0 => Len(printed) < MaxPrints
    /\ printed' = IF prTotal # 0
                    THEN Append(printed, Percent(prCurr, prTotal))
                    ELSE printed
    /\ prPc' = "check"
    /\ UNCHANGED <<repairVars, pairVars, exportVars, prCurr, prTotal, prComplete,
                   ctxDone>>

\* if complete { return }; if total != 0 && curr == total { return }
PrCheck ==
    /\ prPc = "check"
    /\ prPc' = IF prComplete \/ (prTotal # 0 /\ prCurr = prTotal)
                 THEN "returned"
                 ELSE "select"
    /\ UNCHANGED <<repairVars, pairVars, exportVars, prCurr, prTotal, prComplete,
                   printed, ctxDone>>

\* case <-ctx.Done(): complete = true
PrCtxDone ==
    /\ prPc = "select"
    /\ ctxDone
    /\ prComplete' = TRUE
    /\ prPc' = "read"
    /\ UNCHANGED <<repairVars, pairVars, exportVars, prCurr, prTotal, printed,
                   ctxDone>>

\* case <-time.After(time.Second * 3):
PrTimer ==
    /\ prPc = "select"
    /\ prPc' = "read"
    /\ UNCHANGED <<repairVars, pairVars, exportVars, prCurr, prTotal, prComplete,
                   printed, ctxDone>>

\* The command context is cancelled.
CmdCancel ==
    /\ ~ctxDone
    /\ ctxDone' = TRUE
    /\ UNCHANGED <<repairVars, pairVars, exportVars, prPc, prCurr, prTotal,
                   prComplete, printed>>

NextExportDB ==
    \/ NextExport
    \/ PrRead
    \/ PrPrint
    \/ PrCheck
    \/ PrCtxDone
    \/ PrTimer
    \/ CmdCancel

\* One run of the export-db command.
SpecExportDB == InitExportDB /\ [][NextExportDB]_vars

\* ------------------------------------------------------------ vocabulary
\* Positions in tree of the leaves, in walk order.
LeafPaths == SelectSeq([i \in 1..Len(tree) |-> i], LAMBDA i : ~tree[i].isDir)

Leaves == {i \in 1..Len(tree) : ~tree[i].isDir}

\* Paths of the Add calls made for leaves, in order.
LeafAdds == SelectSeq(addLog, LAMBDA a : a.path # RootPath)

RootAdds == SelectSeq(addLog, LAMBDA a : a.path = RootPath)

MainStopped == mainPc \in {"returned", "panicked"}

Succeeded == mainPc = "returned" /\ result.err = Nil

\* node.Walk has returned (the goroutine is at or past err = node.Walk(...)).
WalkFinished ==
    walkPc \in {"assign", "checkErr", "evalSend", "sendErr", "closeErr",
                "closeEntry", "done"}

\* The entry the new manifest must hold for the leaf at position i.
ExpectedLeaf(i) ==
    [reference |-> tree[i].reference,
     metadata |-> [index |-> "", error |-> "", Filename |-> tree[i].Filename,
                   ContentType |-> tree[i].MimeType]]

ExpectedRoot ==
    [reference |-> ZeroAddress,
     metadata |-> [index |-> rootMeta.index, error |-> rootMeta.error,
                   Filename |-> "", ContentType |-> ""]]

\* ---------------------------------------------------------------- claims
\* C1: when DirectoryRepair returns successfully, the new manifest holds
\* every leaf path of the legacy tree with the reference, filename and MIME
\* type of its legacy entry, and no path besides the leaves and the root.
C1_AllLeavesMigrated ==
    Succeeded =>
        /\ DOMAIN m = Leaves \cup {RootPath}
        /\ \A i \in Leaves : m[i] = ExpectedLeaf(i)

\* C2: when DirectoryRepair returns successfully, the number of Update
\* calls equals the number of leaves of the legacy tree.
C2_OneUpdatePerLeaf ==
    Succeeded => Len(updates) = Cardinality(Leaves)

\* C3: once the walk has failed, Store is never called and DirectoryRepair
\* returns an error with the zero reference, never a manifest reference.
C3_WalkErrorAborts ==
    walkResult = WalkErr =>
        /\ storeCalls = 0
        /\ mainPc = "returned" =>
             /\ result.ref = ZeroAddress
             /\ result.err # Nil

\* No case of the select but the cancellation case can be taken.
OnlyCancelReady ==
    /\ cancelled
    /\ walkPc \notin {"sendEntry", "sendErr"}
    /\ errCloses = 0
    /\ entryCloses = 0

\* C4 as stated: once the cancellation signal has fired before the call
\* returns, DirectoryRepair never returns a manifest reference (here: of a
\* call whose root entry was added and whose walk did not fail).
C4_NoReferenceAfterCancel ==
    (cancelled /\ mainPc = "returned" /\ walkResult = Nil
               /\ RootPath \in DOMAIN m) =>
        result.ref = ZeroAddress

\* C4 amended: when the select is left with the signal fired and no other
\* case ready, the call returns the cancellation error and the zero
\* reference; and whenever it returns the cancellation error the signal has
\* fired, the reference is zero and Store was never called.
C4_CancelCaseAborts ==
    /\ [][(mainPc = "select" /\ mainPc' # "select" /\ OnlyCancelReady) =>
            /\ mainPc' = "returned"
            /\ result' = [ref |-> ZeroAddress, err |-> CtxErr]
            /\ storeCalls' = 0]_vars
    /\ []((mainPc = "returned" /\ result.err = CtxErr) =>
            /\ cancelled
            /\ result.ref = ZeroAddress
            /\ storeCalls = 0)

\* C4 witness: the call returned the cancellation error after one of
\* several leaves had been delivered.
C4_Witness ==
    /\ mainPc = "returned"
    /\ result = [ref |-> ZeroAddress, err |-> CtxErr]
    /\ Len(received) = 1
    /\ Cardinality(Leaves) > 1

\* C5: when nothing can run any more and node.Walk has returned, both
\* channels have been closed, each exactly once, also when the Orchestrator
\* stopped receiving.
C5_ChannelsClosedOnFinish ==
    /\ errCloses <= 1
    /\ entryCloses <= 1
    /\ (MainStopped /\ walkPc \in {"sendErr", "done"}) =>
          (errCloses = 1 /\ entryCloses = 1)

\* C6: the walk task is never left at a send that no receiver will ever
\* complete: once the calling task has stopped, the task is not waiting at
\* entryChan <- fentry or errChan <- err.
C6_NoSendBlockedForever ==
    MainStopped => walkPc \notin {"sendEntry", "sendErr"}

\* The accesses of the two tasks to the captured variable err.
WalkWritesErr == walkPc = "assign"
WalkReadsErr == walkPc \in {"checkErr", "evalSend"}
MainWritesErr == mainPc \in {"newManifest", "addRoot"}
MainReadsErr == mainPc \in {"checkManifest", "checkAddRoot", "returnErr"}

\* C7: the two tasks never access the same variable concurrently with one
\* of the accesses a write: no task is about to write err while the other
\* is about to read or write it.
C7_NoSharedVariable ==
    /\ ~(WalkWritesErr /\ (MainWritesErr \/ MainReadsErr))
    /\ ~(MainWritesErr /\ WalkReadsErr)

\* C8: in every directory migration that gets into the selection loop the
\* root entry has been added exactly once, by the first Add on the
\* manifest, which succeeded before any leaf Add was made; the root entry
\* carries the zero reference and only the metadata of the legacy root.
C8_RootAddedFirst ==
    /\ Len(RootAdds) <= 1
    /\ addLog # <<>> => addLog[1].path = RootPath
    /\ (mainPc \in {"select", "update", "add", "store"} \/ Succeeded) =>
          /\ Len(RootAdds) = 1
          /\ RootAdds[1].ok
          /\ RootPath \in DOMAIN m
          /\ m[RootPath] = ExpectedRoot

\* C9: the fileEntries the Orchestrator has received are, in order, the
\* first leaves of the walk, and the leaf Add calls are, in order, the
\* entries received: nothing is reordered, duplicated or skipped.
C9_DeliveryInWalkOrder ==
    /\ Len(received) <= Len(LeafPaths)
    /\ \A k \in 1..Len(received) :
          /\ received[k].filepath = LeafPaths[k]
          /\ LeafEntry(received[k]) = ExpectedLeaf(LeafPaths[k])
    /\ Len(LeafAdds) <= Len(received)
    /\ Len(received) - Len(LeafAdds) <= 1
    /\ \A k \in 1..Len(LeafAdds) : LeafAdds[k].path = received[k].filepath
    /\ (Succeeded /\ result.ref = NewReference) => Len(LeafAdds) = Len(received)

\* C9 witness: three leaves were received and added.
C9_Witness ==
    /\ Len(received) = 3
    /\ Len(LeafAdds) = 3
    /\ tree[1] # tree[2]

\* C10: a failed Add of a received fileEntry is the last thing the
\* Orchestrator does: the call has returned that error with the zero
\* reference, no entry was received and no Add made after it, and Store was
\* never called.
C10_AddFailureAborts ==
    \A i \in 1..Len(addLog) :
        (addLog[i].path # RootPath /\ ~addLog[i].ok) =>
            /\ i = Len(addLog)
            /\ mainPc = "returned"
            /\ result = [ref |-> ZeroAddress, err |-> AddErr]
            /\ Len(received) = Len(LeafAdds)
            /\ storeCalls = 0

\* C10 witness: the Add of the second leaf failed while the walk had a
\* third leaf to deliver.
C10_Witness ==
    /\ Len(LeafAdds) = 2
    /\ ~LeafAdds[2].ok
    /\ Cardinality(Leaves) = 3
    /\ mainPc = "returned"

\* The goroutine is past its only errChan <- err.
PastErrSend == walkPc \in {"closeErr", "closeEntry", "done"}

\* C11: the goroutine sends at most once on errChan (it starts the send
\* once, from the if, with no channel closed, and goes on to the closes
\* without coming back), and DirectoryRepair returns once: the received
\* error ends the call, and a call that has returned stays returned with
\* the same result.
C11_AtMostOneError ==
    [][/\ (walkPc = "sendErr" /\ walkPc' # "sendErr") =>
             (walkPc' = "closeErr" /\ mainPc' = "returned"
                                   /\ result'.err = sendVal)
       /\ (walkPc # "sendErr" /\ walkPc' = "sendErr") =>
             (walkPc = "evalSend" /\ errCloses = 0 /\ entryCloses = 0)
       /\ PastErrSend => PastErrSend'
       /\ mainPc = "returned" => (mainPc' = "returned" /\ result' = result)]_vars

\* C11 witness: the walk failed after a leaf was delivered, its error was
\* returned and the goroutine has ended.
C11_Witness ==
    /\ mainPc = "returned"
    /\ result = [ref |-> ZeroAddress, err |-> WalkErr]
    /\ walkPc = "done"
    /\ Len(received) = 1

\* C12 as stated: once the signal has fired, the select that runs next
\* leaves the loop with the cancellation error and receives no PathEntry.
C12_CancelStopsReceiving ==
    [][(cancelled /\ mainPc = "select" /\ mainPc' # "select") =>
          /\ mainPc' = "returned"
          /\ result'.err = CtxErr
          /\ received' = received]_vars

\* C12 amended: once the signal has fired, the select that runs next either
\* leaves the loop with the cancellation error, receiving nothing and
\* adding nothing, or takes another case that is ready at that moment: a
\* PathEntry being offered, a walk error being offered, or a closed channel.
C12_CancelOrReadyCase ==
    [][(cancelled /\ mainPc = "select" /\ mainPc' # "select") =>
          \/ /\ mainPc' = "returned"
             /\ result' = [ref |-> ZeroAddress, err |-> CtxErr]
             /\ received' = received
             /\ addLog' = addLog
             /\ storeCalls' = storeCalls
          \/ /\ walkPc = "sendEntry"
             /\ received' = Append(received, pending)
             /\ mainPc' = "update"
          \/ /\ walkPc = "sendErr"
             /\ mainPc' = "returned"
             /\ result' = [ref |-> ZeroAddress, err |-> sendVal]
          \/ /\ errCloses + entryCloses > 0
             /\ mainPc' = "store"]_vars

\* C12 witness: the call returned the cancellation error while the
\* goroutine was offering the second leaf.
C12_Witness ==
    /\ cancelled
    /\ mainPc = "returned"
    /\ result.err = CtxErr
    /\ walkPc = "sendEntry"
    /\ Len(received) = 1

\* C13 (directory): Store is called at most once, only after the walk has
\* returned without error, closed its error channel and delivered all its
\* leaves, and after every Add has succeeded.
C13_StoreAfterAllAdds ==
    /\ storeCalls <= 1
    /\ storeCalls = 1 =>
          /\ walkResult = Nil
          /\ errCloses = 1
          /\ Len(received) = Cardinality(Leaves)
          /\ Len(LeafAdds) = Cardinality(Leaves)
          /\ \A i \in 1..Len(addLog) : addLog[i].ok

\* Leaves the goroutine has read and offered on entryChan so far.
Offered ==
    Cardinality({j \in Leaves : j < idx})
        + (IF walkPc = "sendEntry" THEN 1 ELSE 0)

\* C14: at most one PathEntry is in flight: the leaves offered exceed the
\* leaves received by at most one, and by one exactly while the goroutine
\* waits at the send with that leaf.
C14_OneInFlight ==
    /\ Offered - Len(received) \in {0, 1}
    /\ Offered - Len(received) = 1 <=> walkPc = "sendEntry"
    /\ walkPc = "sendEntry" => pending = FileEntry(idx)

\* C14 witness: the goroutine waits with the second leaf while the
\* Orchestrator is adding the first.
C14_Witness ==
    /\ walkPc = "sendEntry"
    /\ Len(received) = 1
    /\ mainPc = "add"

Legacy == tree[1]

FileCall == mainPc \in {"fileRead", "fileUpdate", "fileNewManifest",
                        "fileAddRoot", "fileAddEntry", "fileStore"}
            \/ (MainStopped /\ walkPc = "idle" /\ oldFile # NoOldFile)

DecodeErrs == {ReadErr, LimitErr, EntryDecodeErr, MetadataDecodeErr}

\* C16: a successful FileRepair leaves a manifest with exactly two entries:
\* the root entry with the zero reference and the legacy filename as index
\* document, and an entry keyed by the legacy filename with the legacy
\* content reference and the legacy filename and content type as metadata.
C16_FileManifestContent ==
    (FileCall /\ Succeeded) =>
        /\ result.ref = NewReference
        /\ DOMAIN m = {RootPath, FilePath(Legacy.Filename)}
        /\ m[RootPath] =
              [reference |-> ZeroAddress,
               metadata |-> [index |-> Legacy.Filename, error |-> "",
                             Filename |-> "", ContentType |-> ""]]
        /\ m[FilePath(Legacy.Filename)] =
              [reference |-> Legacy.reference,
               metadata |-> [index |-> "", error |-> "",
                             Filename |-> Legacy.Filename,
                             ContentType |-> Legacy.MimeType]]

\* C16 witness: FileRepair returned the new reference for the file b.jpeg.
C16_Witness ==
    /\ FileCall
    /\ Succeeded
    /\ Legacy.Filename = "b.jpeg"
    /\ Cardinality(DOMAIN m) = 2

\* C17: FileRepair stops at the first failing step: it returns the error of
\* that step with the zero reference, and no later step has run; one
\* progress notification is emitted when the legacy entry decodes and none
\* when it does not.
C17_FileFailFast ==
    /\ Len(updates) <= 1
    /\ Len(addLog) <= 2
    /\ storeCalls <= 1
    /\ (FileCall /\ mainPc = "returned") =>
        /\ Len(updates) = (IF f = NoEntry THEN 0 ELSE 1)
        /\ result.err # Nil => result.ref = ZeroAddress
        /\ result.err \in DecodeErrs =>
              /\ f = NoEntry
              /\ result.err \in {ReadErr, getOldFileEntry(oldFile)}
              /\ addLog = <<>> /\ storeCalls = 0 /\ m = EmptyManifest
        /\ result.err = ManifestErr =>
              /\ ~mValid
              /\ addLog = <<>> /\ storeCalls = 0 /\ m = EmptyManifest
        /\ result.err = AddRootErr =>
              /\ addLog = <<[path |-> RootPath, ok |-> FALSE]>>
              /\ storeCalls = 0 /\ m = EmptyManifest
        /\ result.err = AddErr =>
              /\ Len(addLog) = 2 /\ addLog[1].ok /\ ~addLog[2].ok
              /\ storeCalls = 0
        /\ result.err = StoreErr =>
              /\ Len(addLog) = 2 /\ addLog[1].ok /\ addLog[2].ok
              /\ storeCalls = 1 /\ puts = {}
        /\ result.err = Nil =>
              /\ Len(addLog) = 2 /\ addLog[1].ok /\ addLog[2].ok
              /\ storeCalls = 1
        /\ (\E i \in 1..Len(addLog) : ~addLog[i].ok) =>
              result.err \in {AddRootErr, AddErr}

\* C17 witness: FileRepair returned the error of the failed root Add after
\* its one progress notification.
C17_Witness ==
    /\ FileCall
    /\ mainPc = "returned"
    /\ result.err = AddRootErr
    /\ Len(updates) = 1

\* C18: a legacy entry whose metadata blob is larger than one chunk is not
\* read in full and decoded: getOldFileEntry returns no entry for it.
C18_OversizedMetadataFails ==
    (FileCall /\ oldFile.metaLen > limitMetadataLength) => f = NoEntry

\* C19: every chunk write of a call is made in the pinned upload mode when
\* the call was given WithPin(true) and in the plain upload mode otherwise;
\* the mode is fixed when the Repairer is built, and a call that returns
\* the new reference has written.
C19_WriteModeFollowsPinOption ==
    /\ r.pin = OptionsOf(cmd).pin
    /\ puts \subseteq {IF OptionsOf(cmd).pin THEN ModePutUploadPin
                                            ELSE ModePutUpload}
    /\ result.ref = NewReference => puts # {}

\* C19 witness: a FileRepair called with WithPin(true) returned its new
\* reference after writing in the pinned mode.
C19_Witness ==
    /\ FileCall
    /\ Succeeded
    /\ ~cmd.viaCmd
    /\ cmd.pin
    /\ puts = {ModePutUploadPin}

\* C20: a repair started by the file or directory command writes in the
\* pinned mode exactly when the --pin flag is set.
C20_PinFlagReachesRepairer ==
    (cmd.viaCmd /\ puts # {}) =>
        puts = {IF cmd.pin THEN ModePutUploadPin ELSE ModePutUpload}

\* ------------------------------------------------------------ Export claims
\* The archive entry of the version marker, and of an item.
VersionEntry ==
    [Name |-> ExportVersionFilename, Size |-> Len(CurrentExportVersion),
     payload |-> CurrentExportVersion]

RecordEntry(item) ==
    [Name |-> EncodeToString(item.Address), Size |-> Len(item.Data),
     payload |-> item.Data]

\* Number of record entries begun in the archive.
RecordEntries == IF archive = <<>> THEN 0 ELSE Len(archive) - 1

ExportSucceeded == expPc = "done" /\ expResult = Nil

\* C21: the first progress call is (0, total) and is made before any record
\* is written; every later call follows one written record and reports one
\* more than the call before; done never exceeds total and never decreases.
C21_ProgressCounts ==
    /\ progress = <<>> => RecordEntries = 0
    /\ \A i \in 1..Len(progress) :
         /\ progress[i] = <<i - 1, total>>
         /\ progress[i][1] <= progress[i][2]
    /\ progress # <<>> =>
         /\ total = Len(records)
         /\ Len(progress) = pos
         /\ RecordEntries \in {pos - 1, pos}
         /\ \A i \in 1..(pos - 1) : archive[i + 1] = RecordEntry(records[i])

\* C21 witness: all three records of an index were written and reported.
C21_Witness ==
    /\ expPc = "done"
    /\ progress = <<<<0, 3>>, <<1, 3>>, <<2, 3>>, <<3, 3>>>>

\* C22: when Export returns without error the last progress call has
\* done = total = the number of records of the index; for the empty index
\* the only call is (0, 0).
C22_FinalProgressIsTotal ==
    ExportSucceeded =>
        /\ progress # <<>>
        /\ progress[Len(progress)] = <<Len(records), Len(records)>>
        /\ records = <<>> => progress = << <<0, 0>> >>

\* C22 witness: an Export of two records returned without error.
C22_Witness ==
    /\ ExportSucceeded
    /\ Len(records) = 2
    /\ Len(progress) = 3

\* C23: a successful Export leaves an archive of exactly the version-marker
\* entry followed by one entry per index record, each named by the hex of
\* the record address, with the record data as payload and its length as
\* size.
C23_ArchiveContent ==
    ExportSucceeded =>
        /\ Len(archive) = Len(records) + 1
        /\ archive[1] = VersionEntry
        /\ archive[1].Size = 1
        /\ \A i \in 1..Len(records) :
             /\ archive[i + 1].Name = EncodeToString(records[i].Address)
             /\ archive[i + 1].payload = records[i].Data
             /\ archive[i + 1].Size = Len(archive[i + 1].payload)

\* C23 witness: the records 2b (two bytes of data) and 81 (no data) were
\* exported.
C23_Witness ==
    /\ ExportSucceeded
    /\ Len(archive) = 3
    /\ archive[2] = [Name |-> "2b", Size |-> 2, payload |-> <<7, 8>>]
    /\ archive[3] = [Name |-> "81", Size |-> 0, payload |-> <<>>]

\* C24: in every archive the version marker is the first entry and the
\* record entries follow in the order of the index iteration.
C24_ArchiveOrder ==
    archive # <<>> =>
        /\ archive[1].Name = ExportVersionFilename
        /\ Len(archive) - 1 <= Len(records)
        /\ \A i \in 2..Len(archive) :
             archive[i].Name = EncodeToString(records[i - 1].Address)

\* C24 witness: an archive with the marker and the records 2b, 56, 81.
C24_Witness ==
    /\ Len(archive) = 4
    /\ archive[2].Name = "2b"
    /\ archive[3].Name = "56"
    /\ archive[4].Name = "81"

\* C25: when Export has returned, the database that was opened is closed
\* and the archive writer that was created is closed.
C25_ClosedOnEveryExit ==
    expPc = "done" =>
        /\ dbState \in {"unopened", "closed"}
        /\ twState \in {"none", "closed"}

\* C29: when the header or payload write of the k-th record fails, Export
\* returns that error at once: the last progress call is (k-1, total), the
\* archive holds nothing after the k-th record, and every record counted
\* before was written in full.
C29_RecordWriteFailure ==
    /\ \A i \in 1..(pos - 1) :
         i + 1 <= Len(archive) => archive[i + 1].payload = records[i].Data
    /\ (expPc = "done" /\ expResult \in {HeaderErr, WriteErr} /\ progress # <<>>) =>
         /\ pos <= Len(records)
         /\ progress[Len(progress)] = <<pos - 1, total>>
         /\ expResult = HeaderErr => RecordEntries = pos - 1
         /\ expResult = WriteErr =>
              /\ RecordEntries = pos
              /\ archive[pos + 1].payload = <<>>

\* C29 witness: the payload write of the second of three records failed.
C29_Witness ==
    /\ expPc = "done"
    /\ expResult = WriteErr
    /\ Len(records) = 3
    /\ pos = 2
    /\ progress = <<<<0, 3>>, <<1, 3>>>>

\* ------------------------------------------------------------ notification claims
\* The leaf Adds that completed without error.
CompletedLeafAdds == SelectSeq(LeafAdds, LAMBDA a : a.ok)

DirectoryCall == mainPc \in {"load", "lookupRoot", "launch", "newManifest",
                             "checkManifest", "addRoot", "checkAddRoot",
                             "returnErr", "select", "update", "add", "store"}
                 \/ (MainStopped /\ oldFile = NoOldFile /\ expPc = "idle")

\* C27 as stated: the notifications emitted never exceed the leaf Adds that
\* completed successfully.
C27_NotifyOnlyCompleted ==
    DirectoryCall => Len(updates) <= Len(CompletedLeafAdds)

\* C27: the progress sink is called once per received file, before its Add:
\* the notifications never exceed the files received, name the received
\* files in order, and exceed the successfully completed leaf Adds by at
\* most one (the file whose Add is pending or has failed).
C27_NotifyPerReceivedFile ==
    DirectoryCall =>
        /\ Len(updates) <= Len(received)
        /\ Len(received) <= Len(updates) + 1
        /\ \A i \in 1..Len(updates) : updates[i] = received[i].Filename
        /\ Len(updates) <= Len(CompletedLeafAdds) + 1
        /\ Len(updates) = Len(CompletedLeafAdds) + 1 =>
              \/ mainPc = "add"
              \/ mainPc = "returned" /\ result.err = AddErr

\* C27 witness: the call returned the Add error of its second file after
\* two notifications.
C27_Witness ==
    /\ DirectoryCall
    /\ mainPc = "returned"
    /\ result.err = AddErr
    /\ Len(updates) = 2
    /\ Len(CompletedLeafAdds) = 1

\* C28: for each received PathEntry one notification is emitted and then
\* one Add is issued for it; at the top of the selection loop and after
\* the return the notifications equal the leaf Adds issued.
C28_NotifyThenAdd ==
    DirectoryCall =>
        /\ Len(LeafAdds) <= Len(updates)
        /\ Len(updates) <= Len(LeafAdds) + 1
        /\ \A i \in 1..Len(LeafAdds) :
             /\ LeafAdds[i].path = received[i].filepath
             /\ updates[i] = received[i].Filename
        /\ mainPc \in {"select", "store", "returned"} =>
             /\ Len(updates) = Len(LeafAdds)
             /\ Len(updates) = Len(received)
        /\ mainPc = "update" => Len(received) = Len(updates) + 1
        /\ mainPc = "add" => Len(updates) = Len(LeafAdds) + 1

\* C28 witness: back at the selection loop after two files.
C28_Witness ==
    /\ mainPc = "select"
    /\ Len(updates) = 2
    /\ Len(LeafAdds) = 2

\* ------------------------------------------------------------ setup failures
\* manifest.NewDefaultManifest was called and returned an error.
ManifestFailed ==
    /\ DirectoryCall
    /\ ~mValid
    /\ mainPc \in {"checkManifest", "addRoot", "checkAddRoot", "returnErr",
                   "select", "update", "add", "store", "returned", "panicked"}
    /\ walkPc # "idle"

\* m.Add(RootPath) was called and returned an error.
RootAddFailed == DirectoryCall /\ RootAdds # <<>> /\ ~RootAdds[1].ok

\* C30: when creating the new manifest or adding its root entry fails,
\* DirectoryRepair returns that error with the zero reference and makes no
\* leaf Add and no Store, whatever the walk goroutine does; when both
\* succeed, getOldDirectoryEntry returns no error.
C30_SetupFailureAborts ==
    /\ ManifestFailed =>
         /\ LeafAdds = <<>> /\ RootAdds = <<>> /\ storeCalls = 0
         /\ MainStopped =>
              mainPc = "returned" /\ result = [ref |-> ZeroAddress, err |-> ManifestErr]
    /\ RootAddFailed =>
         /\ LeafAdds = <<>> /\ storeCalls = 0
         /\ MainStopped =>
              mainPc = "returned" /\ result = [ref |-> ZeroAddress, err |-> AddRootErr]
    /\ (DirectoryCall /\ mValid /\ RootAdds # <<>> /\ RootAdds[1].ok) =>
         mainPc # "returnErr"

\* ------------------------------------------------------------ concurrent calls
\* C26: two concurrent directory migrations share no channel and no
\* manifest: every entry added to the manifest of a call was produced by
\* the walk of that call, every walk error a call received is the error of
\* its own walk, and a call that stored its manifest added all its leaves.
C26_CallsIndependent ==
    /\ \A c \in Calls, d \in Calls :
         (c # d /\ pairM[c] # 0 /\ pairM[d] # 0) =>
             /\ pairEntryChan[c] # pairEntryChan[d]
             /\ pairErrChan[c] # pairErrChan[d]
             /\ pairM[c] # pairM[d]
    /\ \A c \in Calls :
         /\ \A x \in pairContent : x.m = pairM[c] => x.entry.call = c
         /\ \A e \in pairGot[c] : e.call = c
         /\ pairPc[c] = "stored" =>
              {x.entry : x \in {y \in pairContent : y.m = pairM[c]}}
                = {PairEntry(c, i) : i \in 1..pairTree[c]}

\* C26 witness: both calls stored a manifest holding their two leaves.
C26_Witness ==
    /\ \A c \in Calls : pairPc[c] = "stored" /\ pairTree[c] = 2
    /\ Cardinality(pairContent) = 4

\* ------------------------------------------------------------ encryption
\* C31: the new manifest of a FileRepair or DirectoryRepair call is created
\* with the encryption setting the call was given with WithEncryption.
C31_EncryptionPassedThrough ==
    mValid => mEncrypt = OptionsOf(cmd).encrypt

\* ------------------------------------------------------------ early failures
\* C32: when counting the records fails, Export returns that error with no
\* destination file created, no archive entry written and no progress
\* call; the file, the archive and the progress calls only come after a
\* successful count.  When creating the destination file fails, Export
\* returns that error with no progress call.
C32_NothingBeforeCount ==
    /\ expPc \in {"newDB", "newIndex", "count"} =>
         twState = "none" /\ archive = <<>> /\ progress = <<>>
    /\ (twState # "none" \/ archive # <<>> \/ progress # <<>>) =>
         total = Len(records)
    /\ (expPc = "done" /\ expResult = CountErr) =>
         twState = "none" /\ archive = <<>> /\ progress = <<>>
    /\ (expPc = "done" /\ expResult = CreateErr) =>
         twState = "none" /\ archive = <<>> /\ progress = <<>>
    /\ expPc = "create" => archive = <<>> /\ progress = <<>>

\* C32 witness: the count of an index of two records failed.
C32_Witness ==
    /\ expPc = "done"
    /\ expResult = CountErr
    /\ Len(records) = 2
    /\ dbState = "closed"

\* ------------------------------------------------------------ progress printer
\* C33: once the export has finished and the printer has read the final
\* progress, the printer returns: it does not go back to waiting.
C33_PrinterReturnsAfterExport ==
    (expPc = "done" /\ ~ctxDone /\ prPc = "select") =>
        <<prCurr, prTotal>> # <<Updater.curr, Updater.total>>

\* C34: the printer never divides by zero; every percentage printed is an
\* integer in 0..100, computed from a pair written by one Update call, and
\* no percentage is smaller than the one printed before.
C34_PercentagesInRange ==
    /\ prPc = "print" =>
         \/ prTotal = 0 /\ prCurr = 0
         \/ \E i \in 1..Len(progress) : progress[i] = <<prCurr, prTotal>>
    /\ \A i \in 1..Len(printed) :
         /\ printed[i] \in 0..100
         /\ \E k \in 0..total : total # 0 /\ printed[i] = (k * 100) \div total
    /\ \A i \in 1..Len(printed), j \in 1..Len(printed) :
         i <= j => printed[i] <= printed[j]

\* C34 witness: the printer printed 0, 33, 66 and 100 percent of an export
\* of three records.
C34_Witness ==
    /\ printed = <<0, 33, 66, 100>>
    /\ prPc = "returned"

====
